---- MODULE Spec2Model ----
(***************************************************************************)
(* A model of geotiff_convert (src/src/main.rs): a raster of u16 codes is  *)
(* downscaled by a majority vote over scale x scale windows into four RGB  *)
(* images (terrain, vegetation, temperature, moisture), computed by a      *)
(* rayon par_bridge over the output pixels, and saved as four PNG files.   *)
(***************************************************************************)
EXTENDS Integers, Sequences, FiniteSets, TLC

\* ---------------------------------------------------------------- bounds
MaxCells == 4      \* Spec: width * height of the source grid
MaxCode == 1       \* Spec: the source codes are 0..MaxCode
MaxScale == 2      \* Spec: scale is 1..MaxScale
MaxThreads == 2    \* the rayon pool has 1..MaxThreads workers
MaxSide == 5       \* SpecWindow: width and height are 1..MaxSide
MaxWinScale == 3   \* SpecWindow: scale is 1..MaxWinScale
MaxLen == 4        \* SpecMostCommon: length of the window
MaxVal == 2        \* SpecMostCommon: the axis values are 0..MaxVal
MaxCalls == 2      \* SpecMostCommon: evaluations of most_common on the window

VARIABLES
    width, height,      \* decoder.dimensions()
    scale,              \* the scale handed to set_pixels
    src_pixels,         \* the decoded samples, row-major (index k is src_pixels[k+1])
    mappings,           \* the rows read_database_mappings returns
    nthreads,           \* number of rayon worker threads
    pc,                 \* where main is
    fatal,              \* what the process panicked with ("none" while it has not)
    next_item,          \* items par_bridge has pulled from enumerate_pixels_mut
    running,            \* the closure invocations in progress, one per busy worker
    image_terrain, image_vegetation, image_temperature, image_moisture,
    saved,              \* images main has saved
    files,              \* the files on disk in the output folder
    writes,             \* history: per image and cell, the items that wrote it
    reads,              \* history: every src_pixels[index] evaluated
    lookups,            \* history: every pixel_value handed to map_pixel
    window,             \* SpecMostCommon: the slice handed to most_common
    results             \* SpecMostCommon: what each evaluation returned

inputs == <<width, height, scale, src_pixels, mappings, nthreads>>
images == <<image_terrain, image_vegetation, image_temperature, image_moisture>>
history == <<writes, reads, lookups>>
mcvars == <<window, results>>
vars == <<inputs, pc, fatal, next_item, running, images, saved, files, history, mcvars>>

\* ------------------------------------------------------------ most_common
Range(s) == {s[k] : k \in DOMAIN s}

CountsPresence(terrain) == [t \in Range(terrain) |-> 1]
\* lines 163-166: the frequency table
Counts(terrain) ==
    [t \in Range(terrain) |-> Cardinality({k \in DOMAIN terrain : terrain[k] = t})]

\* line 169: a HashMap (RandomState) is iterated in an arbitrary order of its keys
IterOrders(counts) ==
    {o \in [1..Cardinality(DOMAIN counts) -> DOMAIN counts] :
        \A a, b \in DOMAIN o : a # b => o[a] # o[b]}

\* line 170
Exceeds(count, max_count) == count > max_count

NewMaxStale(count, max_count) == max_count
\* line 171
NewMax(count, max_count) == count

\* lines 167-175: the scan of the table in iteration order
RECURSIVE Scan(_, _, _, _)
Scan(counts, order, max_count, most) ==
    IF order = <<>> THEN most
    ELSE LET t == Head(order) IN
         IF Exceeds(counts[t], max_count)
         THEN Scan(counts, Tail(order), NewMax(counts[t], max_count), t)
         ELSE Scan(counts, Tail(order), max_count, most)

most_common(terrain, order) == Scan(Counts(terrain), order, 0, 0)

\* ---------------------------------------------------------------- palette
Blue == <<35, 137, 218>>
Green == <<98, 188, 47>>
Black == <<0, 0, 0>>

TerrainColor(v) ==
    CASE v = 1 -> <<128, 128, 128>>
      [] v = 2 -> <<139, 69, 19>>
      [] v = 3 -> <<232, 193, 148>>
      [] v = 4 -> <<98, 188, 47>>
      [] OTHER -> <<35, 137, 218>>

VegetationColor(v) ==
    CASE v = 1 -> <<0, 128, 0>>
      [] v = 2 -> <<139, 69, 19>>
      [] v = 3 -> <<0, 128, 0>>
      [] v = 4 -> <<0, 255, 0>>
      [] v = 5 -> <<255, 0, 0>>
      [] v = 6 -> <<128, 128, 128>>
      [] v = 8 -> <<255, 255, 255>>
      [] OTHER -> <<35, 137, 218>>

TemperatureColor(v) ==
    CASE v = 1 -> <<0, 0, 255>>
      [] v = 2 -> <<0, 128, 255>>
      [] v = 3 -> <<0, 255, 255>>
      [] v = 4 -> <<255, 255, 0>>
      [] v = 5 -> <<255, 0, 0>>
      [] v = 6 -> <<255, 255, 255>>
      [] OTHER -> <<35, 137, 218>>

MoistureColor(v) ==
    CASE v = 1 -> <<255, 255, 0>>
      [] v = 2 -> <<255, 128, 0>>
      [] v = 3 -> <<0, 255, 0>>
      [] OTHER -> <<35, 137, 218>>

\* ------------------------------------------------------------- set_pixels
PixelMapping(c, t, v, tp, m) ==
    [value |-> c, terrain |-> t, vegetation |-> v, temperature |-> tp, moisture |-> m]

CeilDiv(a, b) == (a + b - 1) \div b
\* lines 70-73: ImageBuffer::new(width / scale, height / scale)
OutDim(side, s) == side \div s

OutWidth == OutDim(width, scale)
OutHeight == OutDim(height, scale)
NumItems == OutWidth * OutHeight
Cells == (0..(OutWidth - 1)) \X (0..(OutHeight - 1))

\* ImageBuffer::new: every pixel zeroed
NewImage == [c \in Cells |-> Black]

\* line 82: enumerate_pixels_mut yields (x, y, pixel) row by row
PixelX(k) == k % OutWidth
PixelY(k) == k \div OutWidth

\* line 80
max_db_value == CHOOSE m \in Range(src_pixels) : \A v \in Range(src_pixels) : v <= m

IndexByHeight(x, y, i, j) == (y * scale + j) * height + (x * scale + i)
IndexUnscaled(x, y, i, j) == (y * scale + j) * width + (x + i)
\* line 89
Index(x, y, i, j) == (y * scale + j) * width + (x * scale + i)

\* lines 154-158: the rows whose value is pixel_value; map_pixel returns the first
\* of them, and panics (line 159) when there is none
MatchingRows(pixel_value) == {r \in DOMAIN mappings : mappings[r].value = pixel_value}
HasMapping(pixel_value) == MatchingRows(pixel_value) # {}
map_pixel(pixel_value) ==
    mappings[CHOOSE r \in MatchingRows(pixel_value) : \A q \in MatchingRows(pixel_value) : r <= q]

BelowMaxOrEqual(pixel_value) == pixel_value <= max_db_value
\* line 91
BelowMax(pixel_value) == pixel_value < max_db_value

\* lines 87-88: the p-th iteration (p = 0 .. scale*scale - 1) has i = p / scale, j = p % scale
LoopI(p) == p \div scale
LoopJ(p) == p % scale
Steps == 0..(scale * scale - 1)

IndexAt(x, y, p) == Index(x, y, LoopI(p), LoopJ(p))
InBuffer(index) == index >= 0 /\ index < Len(src_pixels)

\* what stops iteration p: the bounds check of src_pixels[index] (line 90), or
\* map_pixel's panic (line 159)
StepPanic(x, y, p) ==
    IF ~InBuffer(IndexAt(x, y, p)) THEN "index_out_of_bounds"
    ELSE IF BelowMax(src_pixels[IndexAt(x, y, p) + 1])
            /\ ~HasMapping(src_pixels[IndexAt(x, y, p) + 1])
         THEN "missing_mapping"
         ELSE "none"

PanicSteps(x, y) == {p \in Steps : StepPanic(x, y, p) # "none"}
FirstPanic(x, y) == CHOOSE p \in PanicSteps(x, y) : \A q \in PanicSteps(x, y) : p <= q
\* the iterations the closure executes (the panicking one included)
Executed(x, y) ==
    IF PanicSteps(x, y) = {} THEN Steps ELSE {p \in Steps : p <= FirstPanic(x, y)}

\* lines 91-102: the four values pushed for one source cell
Classify(pixel_value) ==
    IF BelowMax(pixel_value)
    THEN map_pixel(pixel_value)
    ELSE PixelMapping(pixel_value, 0, 0, 0, 0)

\* lines 83-104: the closure's loops over the window of output pixel (x, y)
Gather(x, y) ==
    LET done == Executed(x, y)
        ok == PanicSteps(x, y) = {}
        cls == [p \in Steps |-> IF ok THEN Classify(src_pixels[IndexAt(x, y, p) + 1])
                                ELSE PixelMapping(0, 0, 0, 0, 0)]
    IN [panic |-> IF ok THEN "none" ELSE StepPanic(x, y, FirstPanic(x, y)),
        reads |-> {[x |-> x, y |-> y, i |-> LoopI(p), j |-> LoopJ(p),
                    index |-> IndexAt(x, y, p)] : p \in done},
        lookups |-> {src_pixels[IndexAt(x, y, p) + 1] :
                        p \in {q \in done : InBuffer(IndexAt(x, y, q))
                                            /\ BelowMax(src_pixels[IndexAt(x, y, q) + 1])}},
        terrain |-> IF ok THEN [p \in 1..(scale * scale) |-> cls[p - 1].terrain] ELSE <<>>,
        vegetation |-> IF ok THEN [p \in 1..(scale * scale) |-> cls[p - 1].vegetation] ELSE <<>>,
        temperature |-> IF ok THEN [p \in 1..(scale * scale) |-> cls[p - 1].temperature] ELSE <<>>,
        moisture |-> IF ok THEN [p \in 1..(scale * scale) |-> cls[p - 1].moisture] ELSE <<>>]

\* one invocation of the closure of line 82, on item `item` = pixel (x, y)
Closure(st, item, x, y, g) ==
    [st |-> st, item |-> item, x |-> x, y |-> y, terrain |-> g.terrain,
     vegetation |-> g.vegetation, temperature |-> g.temperature, moisture |-> g.moisture]

AtTransposed(x, y) == <<y, x>>
\* lines 112, 124, 135, 143: the pixel the closure stores to, that of (x, y)
At(x, y) == <<x, y>>

\* `*pixel = color` and put_pixel(x, y, color); put_pixel panics outside the image
PutPixel(img, x, y, color) ==
    IF At(x, y) \in DOMAIN img THEN [img EXCEPT ![At(x, y)] = color] ELSE img

\* history of the stores: the cell stored to, the item whose closure stored, and
\* the number of stores the cell has had
Log(axis, x, y, item) ==
    [writes EXCEPT ![axis] = @ \cup {[cell |-> At(x, y), item |-> item,
                                     n |-> Cardinality({e \in @ : e.cell = At(x, y)}) + 1]}]

Advance(t, st) == (running \ {t}) \cup {[t EXCEPT !.st = st]}

\* line 82: a free worker pulls the next item of the bridged iterator and runs the
\* closure's loops (lines 83-104) on it; a panic unwinds the closure
Take ==
    /\ pc = "set_pixels"
    /\ Cardinality(running) < nthreads
    /\ next_item < NumItems
    /\ LET x == PixelX(next_item)
           y == PixelY(next_item)
           g == Gather(x, y)
       IN /\ running' = IF g.panic # "none" THEN running
                        ELSE running \cup {Closure("terrain", next_item, x, y, g)}
          /\ fatal' = IF g.panic # "none" /\ fatal = "none" THEN g.panic ELSE fatal
          /\ reads' = reads \cup g.reads
          /\ lookups' = lookups \cup g.lookups
    /\ next_item' = next_item + 1
    /\ UNCHANGED <<inputs, pc, images, saved, files, writes, mcvars>>

\* lines 105-112
WriteTerrain(t) ==
    /\ pc = "set_pixels"
    /\ t.st = "terrain"
    /\ \E order \in IterOrders(Counts(t.terrain)) :
          image_terrain' = PutPixel(image_terrain, t.x, t.y,
                                    TerrainColor(most_common(t.terrain, order)))
    /\ writes' = Log("terrain", t.x, t.y, t.item)
    /\ running' = Advance(t, "vegetation")
    /\ UNCHANGED <<inputs, pc, fatal, next_item, image_vegetation, image_temperature,
                   image_moisture, saved, files, reads, lookups, mcvars>>

\* lines 114-124: the write lock is taken and released within the statement
WriteVegetation(t) ==
    /\ pc = "set_pixels"
    /\ t.st = "vegetation"
    /\ \E order \in IterOrders(Counts(t.vegetation)) :
          image_vegetation' = PutPixel(image_vegetation, t.x, t.y,
                                       VegetationColor(most_common(t.vegetation, order)))
    /\ writes' = Log("vegetation", t.x, t.y, t.item)
    /\ running' = Advance(t, "temperature")
    /\ UNCHANGED <<inputs, pc, fatal, next_item, image_terrain, image_temperature,
                   image_moisture, saved, files, reads, lookups, mcvars>>

\* lines 126-135
WriteTemperature(t) ==
    /\ pc = "set_pixels"
    /\ t.st = "temperature"
    /\ \E order \in IterOrders(Counts(t.temperature)) :
          image_temperature' = PutPixel(image_temperature, t.x, t.y,
                                        TemperatureColor(most_common(t.temperature, order)))
    /\ writes' = Log("temperature", t.x, t.y, t.item)
    /\ running' = Advance(t, "moisture")
    /\ UNCHANGED <<inputs, pc, fatal, next_item, image_terrain, image_vegetation,
                   image_moisture, saved, files, reads, lookups, mcvars>>

\* lines 137-144: the last write ends the closure; its worker is free again
WriteMoisture(t) ==
    /\ pc = "set_pixels"
    /\ t.st = "moisture"
    /\ \E order \in IterOrders(Counts(t.moisture)) :
          image_moisture' = PutPixel(image_moisture, t.x, t.y,
                                     MoistureColor(most_common(t.moisture, order)))
    /\ writes' = Log("moisture", t.x, t.y, t.item)
    /\ running' = running \ {t}
    /\ UNCHANGED <<inputs, pc, fatal, next_item, image_terrain, image_vegetation,
                   image_temperature, saved, files, reads, lookups, mcvars>>

\* lines 144-150 and 63-65, 187: for_each returns once no closure is running and
\* the iterator is drained, or resumes a closure's panic on the caller
Join ==
    /\ pc = "set_pixels"
    /\ running = {}
    /\ fatal # "none" \/ next_item = NumItems
    /\ pc' = IF fatal # "none" THEN "panicked" ELSE "save"
    /\ UNCHANGED <<inputs, fatal, next_item, running, images, saved, files, history, mcvars>>

FileNames == <<"terrain.png", "vegetation.png", "temperature.png", "moisture.png">>

\* lines 190-193: imgs[saved].save(...).unwrap()
SaveImage ==
    /\ pc = "save"
    /\ \E ok \in BOOLEAN :
          IF ok
          THEN /\ files' = files \cup {FileNames[saved + 1]}
               /\ saved' = saved + 1
               /\ pc' = IF saved + 1 = Len(FileNames) THEN "done" ELSE "save"
               /\ fatal' = fatal
          ELSE /\ pc' = "panicked"
               /\ fatal' = "save_failed"
               /\ UNCHANGED <<files, saved>>
    /\ UNCHANGED <<inputs, next_item, running, images, history, mcvars>>

\* lines 179-187, 52-63, 70-81: main up to the parallel loop
StartOutcomes == {"ok", "usage", "unreadable", "unsupported", "no_database"}
Start ==
    /\ pc = "main"
    /\ \E outcome \in StartOutcomes :
          /\ pc' = CASE outcome = "ok" -> "set_pixels"
                     [] outcome = "usage" -> "usage"
                     [] OTHER -> "panicked"
          /\ fatal' = IF outcome \in {"ok", "usage"} THEN "none" ELSE outcome
    /\ UNCHANGED <<inputs, next_item, running, images, saved, files, history, mcvars>>

\* ------------------------------------------------------------------ inputs
Axes == {"terrain", "vegetation", "temperature", "moisture"}

\* the rows of an attribute table that has a row for every code 0..MaxCode, and
\* a second row for code 0 after them
RowOf(c) == PixelMapping(c, 4 - (c % 4), (c % 8) + 1, (c % 6) + 1, (c % 3) + 1)
FullTable == [r \in 1..(MaxCode + 1) |-> RowOf(r - 1)] \o <<PixelMapping(0, 2, 0, 3, 0)>>
EmptyTable == <<>>
Tables == {FullTable, EmptyTable}

ProgramStart ==
    /\ pc = "main"
    /\ fatal = "none"
    /\ next_item = 0
    /\ running = {}
    /\ image_terrain = NewImage
    /\ image_vegetation = NewImage
    /\ image_temperature = NewImage
    /\ image_moisture = NewImage
    /\ saved = 0
    /\ files = {}
    /\ writes = [a \in Axes |-> {}]
    /\ reads = {}
    /\ lookups = {}

NoWindow ==
    /\ window = <<>>
    /\ results = <<>>

\* every source grid of at most MaxCells cells over the codes 0..MaxCode
Init ==
    /\ width \in 1..MaxCells
    /\ height \in 1..MaxCells
    /\ width * height <= MaxCells
    /\ scale \in 1..MaxScale
    /\ src_pixels \in [1..(width * height) -> 0..MaxCode]
    /\ mappings \in Tables
    /\ nthreads \in 1..MaxThreads
    /\ ProgramStart
    /\ NoWindow

Next ==
    \/ Start
    \/ Take
    \/ \E t \in running : WriteTerrain(t)
    \/ \E t \in running : WriteVegetation(t)
    \/ \E t \in running : WriteTemperature(t)
    \/ \E t \in running : WriteMoisture(t)
    \/ Join
    \/ SaveImage

Spec == Init /\ [][Next]_vars

\* every grid shape up to MaxSide x MaxSide and scale up to MaxWinScale, the last
\* cell holding the maximum code, one worker
InitWindow ==
    /\ width \in 1..MaxSide
    /\ height \in 1..MaxSide
    /\ scale \in 1..MaxWinScale
    /\ src_pixels = [k \in 1..(width * height) |-> IF k = width * height THEN 1 ELSE 0]
    /\ mappings = <<PixelMapping(0, 4, 1, 2, 3), PixelMapping(1, 1, 1, 1, 1)>>
    /\ nthreads = 1
    /\ ProgramStart
    /\ NoWindow

SpecWindow == InitWindow /\ [][Next]_vars

\* the scenario of the 4x4 grid; the attributes the scenario leaves open are 0,
\* the value read_database_mappings gives an absent field (line 28)
ScenarioGrid == <<1, 1, 1, 1, 2, 2, 2, 2, 1, 1, 1, 1, 2, 2, 2, 2>>
ScenarioTable == <<PixelMapping(1, 4, 0, 0, 0), PixelMapping(2, 1, 0, 0, 0)>>

InitScenario ==
    /\ width = 4
    /\ height = 4
    /\ scale = 2
    /\ src_pixels = ScenarioGrid
    /\ mappings = ScenarioTable
    /\ nthreads \in 1..MaxThreads
    /\ ProgramStart
    /\ NoWindow

SpecScenario == InitScenario /\ [][Next]_vars

\* most_common on its own: every window of 1..MaxLen values 0..MaxVal, evaluated
\* up to MaxCalls times, each evaluation with a HashMap of its own
Windows == UNION {[1..n -> 0..MaxVal] : n \in 1..MaxLen}

InitMostCommon ==
    /\ window \in Windows
    /\ results = <<>>
    /\ width = 1
    /\ height = 1
    /\ scale = 1
    /\ src_pixels = <<0>>
    /\ mappings = EmptyTable
    /\ nthreads = 1
    /\ ProgramStart

MostCommonCall ==
    /\ Len(results) < MaxCalls
    /\ \E order \in IterOrders(Counts(window)) :
          results' = Append(results, most_common(window, order))
    /\ UNCHANGED <<inputs, pc, fatal, next_item, running, images, saved, files, history, window>>

NextMostCommon == MostCommonCall

SpecMostCommon == InitMostCommon /\ [][NextMostCommon]_vars

\* -------------------------------------------------------------- properties
\* set_pixels has returned its four images to main
Returned == pc \in {"save", "done"} \/ (pc = "panicked" /\ fatal = "save_failed")

ImageOf(a) ==
    CASE a = "terrain" -> image_terrain
      [] a = "vegetation" -> image_vegetation
      [] a = "temperature" -> image_temperature
      [] a = "moisture" -> image_moisture

ColorOf(a, v) ==
    CASE a = "terrain" -> TerrainColor(v)
      [] a = "vegetation" -> VegetationColor(v)
      [] a = "temperature" -> TemperatureColor(v)
      [] a = "moisture" -> MoistureColor(v)

\* the source cell in column col of row row
SrcAt(col, row) == src_pixels[row * width + col + 1]
\* the scale x scale block of source cells <<col, row>> whose origin is (x*scale, y*scale)
Block(x, y) ==
    ((x * scale)..(x * scale + scale - 1)) \X ((y * scale)..(y * scale + scale - 1))

\* how often v occurs among the values of f, and the values that occur strictly
\* more often than every other
Occurrences(f, v) == Cardinality({k \in DOMAIN f : f[k] = v})
StrictModes(f) ==
    {v \in Range(f) : \A u \in Range(f) \ {v} : Occurrences(f, v) > Occurrences(f, u)}

\* the value of axis a for a source code: its row's field, 0 at the maximum code
AxisValue(a, code) == IF code < max_db_value THEN map_pixel(code)[a] ELSE 0
WindowValues(a, c) == [b \in Block(c[1], c[2]) |-> AxisValue(a, SrcAt(b[1], b[2]))]
NoTies == \A a \in Axes : \A c \in Cells : StrictModes(WindowValues(a, c)) # {}
Expected(a) ==
    [c \in Cells |-> ColorOf(a, CHOOSE v \in StrictModes(WindowValues(a, c)) : TRUE)]

ItemCell(k) == <<k % (width \div scale), k \div (width \div scale)>>
ReadsOf(c) == {r \in reads : r.x = c[1] /\ r.y = c[2]}
Written(a, c) == \E e \in writes[a] : e.cell = c

\* C1: every store to an output image goes to a cell of the image, is the first
\* store to that cell, and is made by the closure of the item whose coordinate the
\* cell is; once set_pixels has returned, every cell of each of the four images
\* has been stored to exactly once.
C1_WrittenExactlyOnce ==
    /\ \A a \in Axes : \A e \in writes[a] :
          e.n = 1 /\ e.cell \in Cells /\ e.cell = ItemCell(e.item)
    /\ Returned =>
          \A a \in Axes : \A c \in Cells : Cardinality({e \in writes[a] : e.cell = c}) = 1

C1_Witness == pc = "done" /\ NumItems >= 2 /\ nthreads >= 2

\* C2: when no window has a tie on any axis, the four images set_pixels returns
\* are the images determined by the inputs alone (each cell the colour of its
\* window's most frequent value), whatever the order of the closures' steps and
\* the number of workers.
C2_SameGridsEveryOrder ==
    (Returned /\ NoTies) => \A a \in Axes : ImageOf(a) = Expected(a)

C2_Witness == pc = "done" /\ NoTies /\ NumItems >= 2 /\ nthreads >= 2

\* C3: every evaluation of most_common on the same window returns the same value.
C3_MostCommonDeterministic ==
    \A a, b \in DOMAIN results : results[a] = results[b]

\* C4: a lookup of a code that has no row raises no error: the run is not
\* aborted by it.
C4_UnmappedLookupContinues ==
    (\E c \in lookups : ~HasMapping(c)) => fatal # "missing_mapping"

\* C5: when the run has ended, all four files have been written or none has; and
\* no file is written before every closure has finished.
C5_AllOrNothingOutput ==
    /\ pc \in {"done", "panicked", "usage"} =>
          (files = {} \/ files = Range(FileNames))
    /\ files # {} => (running = {} /\ next_item = NumItems)

Quadrant(c) ==
    {row * 4 + col : col \in {2 * c[1], 2 * c[1] + 1}, row \in {2 * c[2], 2 * c[2] + 1}}
QuadrantReads ==
    /\ DOMAIN image_terrain = (0..1) \X (0..1)
    /\ \A k \in 0..(next_item - 1) :
          {r.index : r \in ReadsOf(ItemCell(k))} = Quadrant(ItemCell(k))

C8_StrictPluralityWins ==
    \A v \in StrictModes(window) : \A k \in DOMAIN results : results[k] = v

C8_Witness ==
    /\ Len(results) >= 1
    /\ StrictModes(window) # {}
    /\ Cardinality(Range(window)) >= 3

Divisible == width % scale = 0 /\ height % scale = 0

\* C9: when scale divides width and height, the images are (width/scale) x
\* (height/scale), the cells read for output cell (x, y) are exactly the block of
\* columns x*scale..x*scale+scale-1 and rows y*scale..y*scale+scale-1, no source
\* cell is read for two output cells, and once every item is taken every source
\* cell has been read.
C9_WindowsPartitionSource ==
    Divisible =>
       /\ \A a \in Axes :
             DOMAIN ImageOf(a) = (0..(width \div scale - 1)) \X (0..(height \div scale - 1))
       /\ \A k \in 0..(next_item - 1) :
             {<<r.index % width, r.index \div width>> : r \in ReadsOf(ItemCell(k))}
                = Block(ItemCell(k)[1], ItemCell(k)[2])
       /\ \A r1, r2 \in reads : r1.index = r2.index => (r1.x = r2.x /\ r1.y = r2.y)
       /\ next_item = (width \div scale) * (height \div scale) =>
             {r.index : r \in reads} = 0..(width * height - 1)

C9_Witness ==
    /\ pc = "done"
    /\ Divisible
    /\ scale >= 2
    /\ width # height
    /\ next_item >= 2

\* C10: every index evaluated is (y*scale + j)*width + (x*scale + i) for an output
\* coordinate 0 <= x < width/scale, 0 <= y < height/scale and 0 <= i, j < scale,
\* has source column x*scale+i < width and source row y*scale+j < height, and lies
\* in [0, width*height); no cell of the columns from (width/scale)*scale or of the
\* rows from (height/scale)*scale is read.
C10_IndicesInBounds ==
    /\ fatal # "index_out_of_bounds"
    /\ \A r \in reads :
          /\ r.x \in 0..(width \div scale - 1)
          /\ r.y \in 0..(height \div scale - 1)
          /\ r.i \in 0..(scale - 1)
          /\ r.j \in 0..(scale - 1)
          /\ r.index = (r.y * scale + r.j) * width + (r.x * scale + r.i)
          /\ r.x * scale + r.i < width
          /\ r.y * scale + r.j < height
          /\ r.index \in 0..(width * height - 1)
          /\ r.index % width < (width \div scale) * scale
          /\ r.index \div width < (height \div scale) * scale

C10_Witness ==
    /\ pc = "done"
    /\ width % scale # 0
    /\ height % scale # 0
    /\ next_item >= 2

====
